---------------------------- MODULE Spec2Model ----------------------------
(***************************************************************************)
(* Model of the Codexa content-intake pipeline (src/streamlit_app.py):     *)
(* the dedupe index, the raw/clean file storage, the Contribute upload     *)
(* handler and the Admin handlers that mutate the index.                   *)
(*                                                                         *)
(* Text and file names are sequences of one-character strings, raw bytes   *)
(* a sequence of byte values.  A path is the tuple <<dir, ts, name>> of    *)
(* os.path.join(dir, f"{ts}__{name}"): the timestamp has a fixed width, so *)
(* two paths are the same string exactly when the tuples are equal.        *)
(***************************************************************************)
EXTENDS Integers, Sequences, FiniteSets, TLC

(***************************************************************************)
(* Bounds of the model.                                                    *)
(***************************************************************************)
MaxBatch == 2        \* files selected in one upload
MaxTime == 2         \* seconds the clock runs through
MaxRecords == 2      \* records the index is let grow to
MaxFaults == 1       \* file operations that fail in one run
MaxSessions == 2    \* browser sessions
MaxCount == 8        \* words of a file whose estimates are examined
MaxText == 4         \* characters of a text that is cleaned
MaxName == 4         \* characters of a filename searched for a year
MaxLines == 3        \* characters of a short text searched for a title

(***************************************************************************)
(* Program constants.                                                      *)
(***************************************************************************)
CLEAN_ON_UPLOAD == TRUE
PII_SCRUB_ON_UPLOAD == TRUE
LangPrefix == 2000
YearPrefix == 5000
TitleMax == 120

CONTRACT_LABELS == <<"Training Only", "Training + AI-Reading", "Full Access">>

CONTRACT_KEY(label) ==
    CASE label = "Training Only" -> "training_only"
      [] label = "Training + AI-Reading" -> "training_plus_ai"
      [] label = "Full Access" -> "full_access"

ORIG == "storage/original"
STD == "storage/standard"

None == <<>>

(***************************************************************************)
(* Characters and bytes.                                                   *)
(***************************************************************************)
Digits == {"0", "1", "2", "3", "4", "5", "6", "7", "8", "9"}
LowerCase == {"a", "b", "c", "d", "e", "f", "h", "l", "m", "n", "o", "p", "r",
              "t", "x"}
UpperCase == {"D", "F", "P"}
Letters == LowerCase \cup UpperCase
WordChars == Letters \cup Digits \cup {"_"}
SpaceChars == {" ", "\t", "\n", "\r"}

DigitVal(c) ==
    CASE c = "0" -> 0 [] c = "1" -> 1 [] c = "2" -> 2 [] c = "3" -> 3
      [] c = "4" -> 4 [] c = "5" -> 5 [] c = "6" -> 6 [] c = "7" -> 7
      [] c = "8" -> 8 [] c = "9" -> 9

\* bytes.decode("utf-8") on the ASCII bytes the model uploads
Chr(b) ==
    CASE b = 9 -> "\t" [] b = 10 -> "\n" [] b = 13 -> "\r" [] b = 32 -> " "
      [] b = 45 -> "-" [] b = 95 -> "_" [] b = 97 -> "a" [] b = 98 -> "b"
      [] b = 50 -> "2" [] b = 48 -> "0" [] b = 49 -> "1" [] b = 57 -> "9"
      [] OTHER -> "?"

safe_decode(raw) == [i \in 1..Len(raw) |-> Chr(raw[i])]

\* hashlib.sha256 is taken collision free: the digest determines the bytes
sha256_bytes(raw) == <<"sha256", raw>>

\* str.lower()
Lower(s) ==
    [i \in 1..Len(s) |->
        CASE s[i] = "D" -> "d" [] s[i] = "F" -> "f" [] s[i] = "P" -> "p"
          [] OTHER -> s[i]]

Min(a, b) == IF a < b THEN a ELSE b

Prefix(s, n) == SubSeq(s, 1, Min(n, Len(s)))

(***************************************************************************)
(* str.strip()                                                             *)
(***************************************************************************)
RECURSIVE LStrip(_)
LStrip(s) ==
    IF s = <<>> THEN <<>>
    ELSE IF Head(s) \in SpaceChars THEN LStrip(Tail(s)) ELSE s

RECURSIVE RStrip(_)
RStrip(s) ==
    IF s = <<>> THEN <<>>
    ELSE IF s[Len(s)] \in SpaceChars THEN RStrip(SubSeq(s, 1, Len(s) - 1)) ELSE s

Strip(s) == RStrip(LStrip(s))

(***************************************************************************)
(* Python's round() of the fraction num/den (den > 0): to the nearest      *)
(* integer, a tie to the even one.                                         *)
(***************************************************************************)
\* int() without round(): the fraction cut off
PyTruncate(num, den) == num \div den

PyRound(num, den) ==
    LET q == num \div den
        r == num % den
    IN  IF 2 * r < den THEN q
        ELSE IF 2 * r > den THEN q + 1
        ELSE IF q % 2 = 0 THEN q ELSE q + 1

(***************************************************************************)
(* WORD_RE.findall: a match runs from the first to the last word character *)
(* of a maximal run of word characters, apostrophes and hyphens.           *)
(***************************************************************************)
RECURSIVE CountWords(_, _)
CountWords(s, inWord) ==
    IF s = <<>> THEN 0
    ELSE IF Head(s) \in WordChars
         THEN (IF inWord THEN 0 ELSE 1) + CountWords(Tail(s), TRUE)
         ELSE IF Head(s) \in {"-", "'"}
              THEN CountWords(Tail(s), inWord)
              ELSE CountWords(Tail(s), FALSE)

estimate_tokens_from_text(text) ==
    LET words == CountWords(text, FALSE)
    IN  [words |-> words, tokens |-> PyRound(words * 4, 3)]

estimate_tokens_from_bytes(n_bytes) ==
    LET tokens == PyRound(n_bytes, 4)
    IN  [words |-> PyRound(tokens * 3, 4), tokens |-> tokens]

(***************************************************************************)
(* clean_text                                                              *)
(***************************************************************************)
\* text.replace("\r\n", "\n").replace("\r", "\n")
RECURSIVE NormNewlines(_)
NormNewlines(s) ==
    IF s = <<>> THEN <<>>
    ELSE IF Head(s) = "\r"
         THEN IF Len(s) >= 2 /\ s[2] = "\n"
              THEN NormNewlines(Tail(s))
              ELSE <<"\n">> \o NormNewlines(Tail(s))
         ELSE <<Head(s)>> \o NormNewlines(Tail(s))

RECURSIVE DropHSpace(_)
DropHSpace(s) ==
    IF s = <<>> THEN <<>>
    ELSE IF Head(s) \in {" ", "\t"} THEN DropHSpace(Tail(s)) ELSE s

\* re.sub(r"[ \t]+", " ", s)
RECURSIVE CollapseHSpace(_)
CollapseHSpace(s) ==
    IF s = <<>> THEN <<>>
    ELSE IF Head(s) \in {" ", "\t"}
         THEN <<" ">> \o CollapseHSpace(DropHSpace(Tail(s)))
         ELSE <<Head(s)>> \o CollapseHSpace(Tail(s))

\* re.sub(r"(?<!\n)\n(?!\n)", " ", s)
UnwrapNewlines(s) ==
    [i \in 1..Len(s) |->
        IF /\ s[i] = "\n"
           /\ (i = 1 \/ s[i - 1] # "\n")
           /\ (i = Len(s) \/ s[i + 1] # "\n")
        THEN " " ELSE s[i]]

\* the index after the run of whitespace that starts at i
RECURSIVE SkipSpace(_, _)
SkipSpace(s, i) ==
    IF i <= Len(s) /\ s[i] \in SpaceChars THEN SkipSpace(s, i + 1) ELSE i

\* re.sub(r"(\w)-\s+(\w)", r"\1\2", s), scanning from index i
RECURSIVE Dehyphenate(_, _)
Dehyphenate(s, i) ==
    IF i > Len(s) THEN <<>>
    ELSE LET j == SkipSpace(s, i + 2)
         IN  IF /\ s[i] \in WordChars
                /\ i + 2 <= Len(s)
                /\ s[i + 1] = "-"
                /\ s[i + 2] \in SpaceChars
                /\ j <= Len(s)
                /\ s[j] \in WordChars
             THEN <<s[i], s[j]>> \o Dehyphenate(s, j + 1)
             ELSE <<s[i]>> \o Dehyphenate(s, i + 1)

RECURSIVE DropNewlines(_)
DropNewlines(s) ==
    IF s = <<>> THEN <<>>
    ELSE IF Head(s) = "\n" THEN DropNewlines(Tail(s)) ELSE s

\* re.sub(r"\n{3,}", "\n\n", s)
RECURSIVE CollapseNewlines(_)
CollapseNewlines(s) ==
    IF s = <<>> THEN <<>>
    ELSE IF Len(s) >= 3 /\ s[1] = "\n" /\ s[2] = "\n" /\ s[3] = "\n"
         THEN <<"\n", "\n">> \o CollapseNewlines(DropNewlines(s))
         ELSE <<Head(s)>> \o CollapseNewlines(Tail(s))

\* EMAIL_RE, PHONE_RE and URL_RE need "@", ten digits or "http": no text
\* over the model's characters has a match, and the substitution returns
\* its argument
ScrubPII(s) == s

clean_text(text, pii) ==
    IF text = <<>> THEN <<>>
    ELSE LET s1 == NormNewlines(text)
             s2 == CollapseHSpace(s1)
             s3 == UnwrapNewlines(s2)
             s4 == Dehyphenate(s3, 1)
             s5 == CollapseNewlines(s4)
             s6 == IF pii THEN ScrubPII(s5) ELSE s5
         IN  Strip(s6)

(***************************************************************************)
(* File names: os.path.splitext, str.replace(" ", "_"), str.endswith       *)
(***************************************************************************)
RECURSIVE LastDot(_, _)
LastDot(s, i) ==
    IF i = 0 THEN 0 ELSE IF s[i] = "." THEN i ELSE LastDot(s, i - 1)

\* os.path.splitext: the extension starts at the last dot, unless only dots
\* come before it
splitext(name) ==
    LET i == LastDot(name, Len(name))
    IN  IF i = 0 \/ \A j \in 1..(i - 1) : name[j] = "."
        THEN <<name, <<>>>>
        ELSE <<SubSeq(name, 1, i - 1), SubSeq(name, i, Len(name))>>

Sanitize(name) ==
    [i \in 1..Len(name) |-> IF name[i] = " " THEN "_" ELSE name[i]]

EndsWith(s, suffix) ==
    /\ Len(s) >= Len(suffix)
    /\ SubSeq(s, Len(s) - Len(suffix) + 1, Len(s)) = suffix

DotTxt == <<".", "t", "x", "t">>
DotMd == <<".", "m", "d">>
DotPdf == <<".", "p", "d", "f">>
DotDocx == <<".", "d", "o", "c", "x">>
DotHtml == <<".", "h", "t", "m", "l">>
DotHtm == <<".", "h", "t", "m">>
DotCleanTxt == <<".", "c", "l", "e", "a", "n">> \o DotTxt

\* save_path and clean_path of the upload handler and of Re-clean
RawPath(ts, fname) == <<ORIG, ts, Sanitize(fname)>>
CleanPath(ts, fname) == <<STD, ts, splitext(Sanitize(fname))[1] \o DotCleanTxt>>

(***************************************************************************)
(* extract_text_from_bytes.  caps holds HAVE_PDF, HAVE_DOCX, HAVE_BS4 and  *)
(* HAVE_LANG.  The parsers are external: PdfReader and docx.Document are   *)
(* taken to return the decoded bytes as the text of the document,          *)
(* BeautifulSoup.get_text the decoded bytes (the model's characters hold   *)
(* no tag).  File names of the model carry the extensions below; .csv and  *)
(* .json are not uploaded.                                                 *)
(***************************************************************************)
WarnNoPdf == "pypdf not installed; cannot extract PDF."
WarnScanned == "PDF contained no extractable text (likely scanned)."
WarnNoDocx == "python-docx not installed; cannot extract DOCX."
WarnNoBs4 == "beautifulsoup4 not installed; cannot extract HTML."

\* extract_text_from_bytes without the test of HAVE_PDF
extract_text_unguarded(filename, raw, caps) ==
    LET ext == splitext(Lower(filename))[2]
    IN  IF ext = DotPdf
        THEN LET text == Strip(safe_decode(raw))
             IN  [text |-> text,
                  warnings |-> IF text = <<>> THEN <<WarnScanned>> ELSE <<>>]
        ELSE IF ext = DotDocx
        THEN IF ~caps.docx
             THEN [text |-> <<>>, warnings |-> <<WarnNoDocx>>]
             ELSE [text |-> Strip(safe_decode(raw)), warnings |-> <<>>]
        ELSE IF ext \in {DotHtml, DotHtm}
        THEN IF ~caps.bs4
             THEN [text |-> <<>>, warnings |-> <<WarnNoBs4>>]
             ELSE [text |-> safe_decode(raw), warnings |-> <<>>]
        ELSE [text |-> safe_decode(raw), warnings |-> <<>>]

extract_text_from_bytes(filename, raw, caps) ==
    LET ext == splitext(Lower(filename))[2]
    IN  IF ext = DotPdf
        THEN IF ~caps.pdf
             THEN [text |-> <<>>, warnings |-> <<WarnNoPdf>>]
             ELSE LET text == Strip(safe_decode(raw))
                  IN  [text |-> text,
                       warnings |-> IF text = <<>> THEN <<WarnScanned>> ELSE <<>>]
        ELSE IF ext = DotDocx
        THEN IF ~caps.docx
             THEN [text |-> <<>>, warnings |-> <<WarnNoDocx>>]
             ELSE [text |-> Strip(safe_decode(raw)), warnings |-> <<>>]
        ELSE IF ext \in {DotTxt, DotMd}
        THEN [text |-> safe_decode(raw), warnings |-> <<>>]
        ELSE IF ext \in {DotHtml, DotHtm}
        THEN IF ~caps.bs4
             THEN [text |-> <<>>, warnings |-> <<WarnNoBs4>>]
             ELSE [text |-> safe_decode(raw), warnings |-> <<>>]
        ELSE [text |-> safe_decode(raw), warnings |-> <<>>]

(***************************************************************************)
(* auto_metadata                                                           *)
(***************************************************************************)
\* YearSearch for a run of exactly four digits: no digit before or after
RECURSIVE YearSearchWhole(_, _)
YearSearchWhole(s, i) ==
    IF i + 3 > Len(s) THEN None
    ELSE IF /\ \/ s[i] = "1" /\ s[i + 1] = "9"
               \/ s[i] = "2" /\ s[i + 1] = "0"
            /\ s[i + 2] \in Digits
            /\ s[i + 3] \in Digits
            /\ i > 1 => s[i - 1] \notin Digits
            /\ i + 3 < Len(s) => s[i + 4] \notin Digits
         THEN <<1000 * DigitVal(s[i]) + 100 * DigitVal(s[i + 1])
                 + 10 * DigitVal(s[i + 2]) + DigitVal(s[i + 3])>>
         ELSE YearSearchWhole(s, i + 1)

\* YEAR_RE.search(s): the leftmost (19|20)\d{2}, from index i on
RECURSIVE YearSearch(_, _)
YearSearch(s, i) ==
    IF i + 3 > Len(s) THEN None
    ELSE IF /\ \/ s[i] = "1" /\ s[i + 1] = "9"
               \/ s[i] = "2" /\ s[i + 1] = "0"
            /\ s[i + 2] \in Digits
            /\ s[i + 3] \in Digits
         THEN <<1000 * DigitVal(s[i]) + 100 * DigitVal(s[i + 1])
                 + 10 * DigitVal(s[i + 2]) + DigitVal(s[i + 3])>>
         ELSE YearSearch(s, i + 1)

RECURSIVE UntilNewline(_)
UntilNewline(s) ==
    IF s = <<>> \/ Head(s) = "\n" THEN <<>>
    ELSE <<Head(s)>> \o UntilNewline(Tail(s))

\* next((ln.strip() for ln in text.split("\n") if ln.strip()), "")
RECURSIVE FirstLine(_)
FirstLine(text) ==
    LET ln == UntilNewline(text)
    IN  IF Strip(ln) # <<>> THEN Strip(ln)
        ELSE IF Len(ln) = Len(text) THEN <<>>
        ELSE FirstLine(SubSeq(text, Len(ln) + 2, Len(text)))

\* langdetect.detect: raises on a text without letters, else answers det
lang_detect(text, det) ==
    IF \E i \in 1..Len(text) : text[i] \in Letters THEN det ELSE "unknown"

\* auto_metadata searching the year in the text only
auto_metadata_text_year(filename, text, caps, det) ==
    LET lang == IF caps.lang
                THEN IF text # <<>> THEN lang_detect(Prefix(text, LangPrefix), det)
                     ELSE "unknown"
                ELSE "unknown"
        year == IF text # <<>> THEN YearSearch(Prefix(text, YearPrefix), 1)
                ELSE None
        first == IF text # <<>> THEN Prefix(FirstLine(text), TitleMax) ELSE <<>>
        title == IF first # <<>> THEN first
                 ELSE Prefix(splitext(filename)[1], TitleMax)
        counts == estimate_tokens_from_text(text)
    IN  [language_auto |-> lang,
         year_auto |-> year,
         title_auto |-> title,
         words_auto |-> counts.words,
         tokens_auto |-> counts.tokens]

auto_metadata(filename, text, caps, det) ==
    LET lang == IF caps.lang
                THEN IF text # <<>> THEN lang_detect(Prefix(text, LangPrefix), det)
                     ELSE "unknown"
                ELSE "unknown"
        m == YearSearch(filename, 1)
        year == IF m = None /\ text # <<>>
                THEN YearSearch(Prefix(text, YearPrefix), 1)
                ELSE m
        first == IF text # <<>> THEN Prefix(FirstLine(text), TitleMax) ELSE <<>>
        title == IF first # <<>> THEN first
                 ELSE Prefix(splitext(filename)[1], TitleMax)
        counts == estimate_tokens_from_text(text)
    IN  [language_auto |-> lang,
         year_auto |-> year,
         title_auto |-> title,
         words_auto |-> counts.words,
         tokens_auto |-> counts.tokens]

(***************************************************************************)
(* State.                                                                  *)
(*   index, order : the dict of storage/dedupe_index.json, digest ->       *)
(*                  record, and the order of its keys (a Python dict and   *)
(*                  its JSON file keep insertion order)                    *)
(*   rawFiles     : storage/original, path -> bytes                        *)
(*   cleanFiles   : storage/standard, path -> text                         *)
(*   clock        : datetime.utcnow() in seconds                           *)
(*   caps         : the optional imports that succeeded at start-up        *)
(*   report       : the files and the form of the last upload and the rows  *)
(*                  its handler built (kept when tracked); done tells      *)
(*                  that the handler ran through and showed them, raised   *)
(*                  the file at which a write raised                       *)
(*   hist         : digests submitted, entries created, whether a duplicate *)
(*                  was met and whether one came under another filename    *)
(*                  since the last delete, and whether a removal of a      *)
(*                  delete has raised (history, read by no handler)        *)
(*   faults       : file operations that have failed so far                *)
(*   sessions     : per browser session, the run of the upload handler     *)
(*                  that has loaded the index and not yet saved it: the    *)
(*                  dict it holds, and (history) the keys it loaded and    *)
(*                  the digests of its files                               *)
(*   call         : the input drawn for a function that is examined by     *)
(*                  itself, and what its applications have returned        *)
(***************************************************************************)
VARIABLES index, order, rawFiles, cleanFiles, clock, caps, report, hist,
          faults, sessions, call

vars == <<index, order, rawFiles, cleanFiles, clock, caps, report, hist,
          faults, sessions, call>>

EmptyMap == [x \in {} |-> x]
Put(m, k, v) == [x \in DOMAIN m \cup {k} |-> IF x = k THEN v ELSE m[x]]
Drop(m, k) == [x \in DOMAIN m \ {k} |-> m[x]]
RECURSIVE Without(_, _)
Without(seq, k) ==
    IF seq = <<>> THEN <<>>
    ELSE IF Head(seq) = k THEN Without(Tail(seq), k)
         ELSE <<Head(seq)>> \o Without(Tail(seq), k)

Exists(raws, cleans, p) == p \in DOMAIN raws \/ p \in DOMAIN cleans

NoCall == [fn |-> "none", arg |-> <<>>, out |-> <<>>, step |-> 0]

NoForm == [contract_label |-> "", language |-> "", genre |-> "", tags |-> <<>>,
           user_id |-> ""]
NoReport == [files |-> <<>>, form |-> NoForm, duplicate_rows |-> <<>>,
             accepted_rows |-> <<>>, done |-> FALSE, raised |-> 0]
NoHist == [uploaded |-> {}, created |-> 0, sawDuplicate |-> FALSE,
           sawRenamed |-> FALSE, deleted |-> FALSE, removalFailed |-> FALSE]
VoidHist == [uploaded |-> {}, created |-> 0, sawDuplicate |-> FALSE,
             sawRenamed |-> FALSE, deleted |-> TRUE, removalFailed |-> FALSE]

(***************************************************************************)
(* Contribute: the upload handler.  form is the contract and the manual    *)
(* metadata of the page, env the clock, the capabilities, the answer of    *)
(* the language detector and the file operation that fails, if any.        *)
(***************************************************************************)
UploaderId(user_id) == IF user_id = "" THEN "unknown" ELSE user_id

\* DuplicateRow reporting the time of the second upload instead of the first
DuplicateRowOwnTime(f, prev) ==
    LET size_b == Len(f.raw)
        counts == estimate_tokens_from_bytes(size_b)
    IN  [filename |-> f.name, size_bytes |-> size_b,
         est_tokens |-> counts.tokens,
         duplicate_of |-> prev.path,
         uploaded_at_original |-> clock,
         contract |-> prev.contract_label,
         language |-> prev.language, genre |-> prev.genre, tags |-> prev.tags,
         uploader_id |-> prev.uploader_id]

\* the duplicate branch
DuplicateRow(f, prev) ==
    LET size_b == Len(f.raw)
        counts == estimate_tokens_from_bytes(size_b)
    IN  [filename |-> f.name, size_bytes |-> size_b,
         est_tokens |-> counts.tokens,
         duplicate_of |-> prev.path,
         uploaded_at_original |-> prev.uploaded_at,
         contract |-> prev.contract_label,
         language |-> prev.language, genre |-> prev.genre, tags |-> prev.tags,
         uploader_id |-> prev.uploader_id]

\* the branch of a new digest; acc.ok turns FALSE where a write raises
IngestNew(acc, f, form, env, k) ==
    LET ts == env.ts
        save_path == RawPath(ts, f.name)
        ex == extract_text_from_bytes(f.name, f.raw, env.caps)
        cleaning == CLEAN_ON_UPLOAD /\ ex.text # <<>>
        clean_txt == IF cleaning THEN clean_text(ex.text, PII_SCRUB_ON_UPLOAD)
                     ELSE <<>>
        auto_meta == IF cleaning
                     THEN auto_metadata(f.name, clean_txt, env.caps, env.det)
                     ELSE auto_metadata(f.name, ex.text, env.caps, env.det)
        clean_path == CleanPath(ts, f.name)
        counts == IF clean_txt # <<>> THEN estimate_tokens_from_text(clean_txt)
                  ELSE IF ex.text # <<>> THEN estimate_tokens_from_text(ex.text)
                  ELSE estimate_tokens_from_bytes(Len(f.raw))
        entry == [path |-> save_path,
                  original_name |-> f.name,
                  contract_label |-> form.contract_label,
                  contract_key |-> CONTRACT_KEY(form.contract_label),
                  uploaded_at |-> ts,
                  size_bytes |-> Len(f.raw),
                  est_tokens |-> counts.tokens,
                  est_words |-> counts.words,
                  status |-> "ok",
                  language |-> form.language,
                  genre |-> form.genre,
                  tags |-> form.tags,
                  metadata |-> auto_meta,
                  uploader_id |-> UploaderId(form.user_id),
                  clean_path |-> IF clean_txt # <<>> THEN clean_path ELSE None]
        row == [filename |-> f.name, size_bytes |-> Len(f.raw),
                est_words |-> counts.words, est_tokens |-> counts.tokens,
                saved_as |-> save_path, uploaded_at |-> ts,
                contract |-> form.contract_label,
                language |-> form.language, genre |-> form.genre,
                extraction_warnings |-> ex.warnings,
                uploader_id |-> UploaderId(form.user_id)]
        sha_raw == sha256_bytes(f.raw)
    IN  IF env.fault = <<k, "raw">>
        THEN [acc EXCEPT !.ok = FALSE]
        ELSE IF cleaning /\ env.fault = <<k, "clean">>
        THEN [acc EXCEPT !.ok = FALSE,
                         !.raw = Put(acc.raw, save_path, f.raw)]
        ELSE [acc EXCEPT
                !.raw = Put(acc.raw, save_path, f.raw),
                !.clean = IF cleaning THEN Put(acc.clean, clean_path, clean_txt)
                          ELSE acc.clean,
                !.index = Put(acc.index, sha_raw, entry),
                !.order = Append(acc.order, sha_raw),
                !.accepted_rows = Append(acc.accepted_rows, row)]

\* ProcessFile without the membership test: every file is ingested
ProcessFileNoDedupe(acc, f, form, env, k) ==
    IngestNew(acc, f, form, env, k)

\* ProcessFile whose duplicate branch takes the filename of the new upload
ProcessFileRenames(acc, f, form, env, k) ==
    LET sha_raw == sha256_bytes(f.raw)
    IN  IF sha_raw \in DOMAIN acc.index
        THEN [acc EXCEPT !.index[sha_raw].original_name = f.name,
                         !.duplicate_rows =
                            Append(acc.duplicate_rows,
                                   DuplicateRow(f, acc.index[sha_raw]))]
        ELSE IngestNew(acc, f, form, env, k)

\* one pass of the loop over the uploaded files
ProcessFile(acc, f, form, env, k) ==
    LET sha_raw == sha256_bytes(f.raw)
    IN  IF sha_raw \in DOMAIN acc.index
        THEN [acc EXCEPT !.duplicate_rows =
                            Append(acc.duplicate_rows,
                                   DuplicateRow(f, acc.index[sha_raw]))]
        ELSE IngestNew(acc, f, form, env, k)

\* the loop from file k on; an exception ends it
RECURSIVE RunBatch(_, _, _, _, _)
RunBatch(acc, files, form, env, k) ==
    IF k > Len(files) \/ ~acc.ok THEN acc
    ELSE RunBatch(ProcessFile(acc, files[k], form, env, k), files, form, env,
                  k + 1)

UploadResult(files, form, env) ==
    RunBatch([index |-> index, order |-> order, raw |-> rawFiles,
              clean |-> cleanFiles, duplicate_rows |-> <<>>,
              accepted_rows |-> <<>>, ok |-> TRUE],
             files, form, env, 1)

Batches(Fs) == UNION {[1..n -> Fs] : n \in 1..MaxBatch}

NoFault == <<0, "none">>
FaultsOf(files, kinds) ==
    {NoFault} \cup {<<k, kind>> : k \in 1..Len(files), kind \in kinds}

Upload(Fs, Forms, Dets, kinds, track) ==
    \E files \in Batches(Fs), form \in Forms, det \in Dets :
      \E fault \in FaultsOf(files, kinds) :
        \E res \in {UploadResult(files, form,
                                   [ts |-> clock, caps |-> caps, det |-> det,
                                    fault |-> fault])} :
            /\ Cardinality(DOMAIN res.index) <= MaxRecords
            \* a fault is drawn only where the failing call is reached
            /\ fault # NoFault => ~res.ok /\ faults < MaxFaults
            /\ faults' = IF fault # NoFault THEN faults + 1 ELSE faults
            \* save_index(index) runs when the loop ran through
            /\ index' = IF res.ok THEN res.index ELSE index
            /\ order' = IF res.ok THEN res.order ELSE order
            /\ rawFiles' = res.raw
            /\ cleanFiles' = res.clean
            /\ report' = IF track
                          THEN [files |-> files,
                                form |-> form,
                                duplicate_rows |-> res.duplicate_rows,
                                accepted_rows |-> res.accepted_rows,
                                done |-> res.ok,
                                raised |-> fault[1]]
                          ELSE NoReport
            /\ hist' = IF hist.deleted THEN hist
                        ELSE [hist EXCEPT
                                !.uploaded = @ \cup
                                    {sha256_bytes(files[k].raw) :
                                        k \in 1..Len(files)},
                                !.created = @ + Len(res.accepted_rows),
                                !.sawDuplicate =
                                    @ \/ res.duplicate_rows # <<>>,
                                !.sawRenamed =
                                    @ \/ \E k \in 1..Len(files) :
                                           LET d == sha256_bytes(files[k].raw)
                                           IN  /\ d \in DOMAIN index
                                               /\ index[d].original_name
                                                      # files[k].name]
            /\ UNCHANGED <<clock, caps, sessions, call>>

Tick ==
    /\ clock < MaxTime
    /\ clock' = clock + 1
    /\ UNCHANGED <<index, order, rawFiles, cleanFiles, caps, report, hist,
                   faults, sessions, call>>

(***************************************************************************)
(* The upload handler in two steps, for runs of several sessions that      *)
(* interleave: load_index() and the loop over the files, then              *)
(* save_index(index).  Nothing locks the index file between the two.       *)
(***************************************************************************)
Sessions == 1..MaxSessions

Idle == [pc |-> "idle", index |-> EmptyMap, order |-> <<>>, loaded |-> {},
         own |-> {}]

BeginUpload(Fs, Forms, Dets) ==
    \E s \in Sessions, files \in Batches(Fs), form \in Forms, det \in Dets :
        \E res \in {UploadResult(files, form,
                                   [ts |-> clock, caps |-> caps, det |-> det,
                                    fault |-> NoFault])} :
            /\ sessions[s].pc = "idle"
            /\ Cardinality(DOMAIN res.index) <= MaxRecords
            /\ sessions' = [sessions EXCEPT
                              ![s] = [pc |-> "loaded",
                                      index |-> res.index,
                                      order |-> res.order,
                                      loaded |-> DOMAIN index,
                                      own |-> {sha256_bytes(files[k].raw) :
                                                  k \in 1..Len(files)}]]
            /\ rawFiles' = res.raw
            /\ cleanFiles' = res.clean
            /\ UNCHANGED <<index, order, clock, caps, report, hist, faults, call>>

\* save_index that keeps the entries another run has saved meanwhile
SavedIndexMerged(s) ==
    [d \in DOMAIN index \cup DOMAIN sessions[s].index |->
        IF d \in DOMAIN sessions[s].index THEN sessions[s].index[d]
        ELSE index[d]]

\* json.dump(ix, f): the file is the dict of the run, whole
SavedIndex(s) == sessions[s].index

SaveIndex ==
    \E s \in Sessions :
        /\ sessions[s].pc = "loaded"
        /\ index' = SavedIndex(s)
        /\ order' = sessions[s].order
        /\ sessions' = [sessions EXCEPT ![s] = Idle]
        /\ UNCHANGED <<rawFiles, cleanFiles, clock, caps, report, hist, faults, call>>

(***************************************************************************)
(* Admin: Delete Selected.  fail names the os.remove that raises, if any;  *)
(* the handler swallows the exception and goes on to the index.            *)
(***************************************************************************)
\* RemoveFiles that leaves the cleaned file
RemoveFilesRawOnly(raws, cleans, meta, fail) ==
    LET rawThere == meta.path \in DOMAIN raws
        raised == rawThere /\ fail = "raw"
    IN  [raw |-> IF rawThere /\ ~raised THEN Drop(raws, meta.path) ELSE raws,
         clean |-> cleans,
         failed |-> raised]

RemoveFiles(raws, cleans, meta, fail) ==
    LET rawThere == meta.path \in DOMAIN raws
        raised == rawThere /\ fail = "raw"
        cleanThere == /\ ~raised
                      /\ meta.clean_path # None
                      /\ meta.clean_path \in DOMAIN cleans
    IN  [raw |-> IF rawThere /\ ~raised THEN Drop(raws, meta.path) ELSE raws,
         clean |-> IF cleanThere /\ fail # "clean"
                   THEN Drop(cleans, meta.clean_path) ELSE cleans,
         failed |-> raised \/ (cleanThere /\ fail = "clean")]

DeleteSelected(kinds) ==
    \E sha \in DOMAIN index, fail \in {"none"} \cup kinds :
        \E res \in {RemoveFiles(rawFiles, cleanFiles, index[sha], fail)} :
            /\ fail # "none" => res.failed /\ faults < MaxFaults
            /\ faults' = IF fail # "none" THEN faults + 1 ELSE faults
            /\ rawFiles' = res.raw
            /\ cleanFiles' = res.clean
            /\ index' = Drop(index, sha)
            /\ order' = Without(order, sha)
            /\ report' = NoReport
            /\ hist' = [VoidHist EXCEPT
                          !.removalFailed = hist.removalFailed \/ res.failed]
            /\ UNCHANGED <<clock, caps, sessions, call>>

(***************************************************************************)
(* Admin: Clear All Saved Data.                                            *)
(***************************************************************************)
ClearAll ==
    /\ index # EmptyMap \/ rawFiles # EmptyMap \/ cleanFiles # EmptyMap
    /\ index' = EmptyMap
    /\ order' = <<>>
    /\ rawFiles' = EmptyMap
    /\ cleanFiles' = EmptyMap
    /\ report' = NoReport
    /\ hist' = [VoidHist EXCEPT !.removalFailed = hist.removalFailed]
    /\ UNCHANGED <<clock, caps, faults, sessions, call>>

(***************************************************************************)
(* Admin: Recompute for all.                                               *)
(***************************************************************************)
ReadText(raws, cleans, p) ==
    IF p \in DOMAIN cleans THEN cleans[p] ELSE safe_decode(raws[p])

\* RecomputeOne that also stamps the record with the time of the recompute
RecomputeOneStamps(meta, raws, cleans) ==
    LET p == IF meta.clean_path # None THEN meta.clean_path ELSE meta.path
        counts == IF EndsWith(p[3], DotTxt)
                  THEN estimate_tokens_from_text(ReadText(raws, cleans, p))
                  ELSE estimate_tokens_from_bytes(Len(raws[p]))
    IN  IF ~Exists(raws, cleans, p) THEN meta
        ELSE [meta EXCEPT !.est_tokens = counts.tokens,
                          !.est_words = counts.words,
                          !.uploaded_at = clock]

RecomputeOne(meta, raws, cleans) ==
    LET p == IF meta.clean_path # None THEN meta.clean_path ELSE meta.path
        counts == IF EndsWith(p[3], DotTxt)
                  THEN estimate_tokens_from_text(ReadText(raws, cleans, p))
                  ELSE estimate_tokens_from_bytes(Len(raws[p]))
    IN  IF ~Exists(raws, cleans, p) THEN meta
        ELSE [meta EXCEPT !.est_tokens = counts.tokens,
                          !.est_words = counts.words]

RecomputeAll ==
    /\ index # EmptyMap
    /\ index' = [sha \in DOMAIN index |->
                    RecomputeOne(index[sha], rawFiles, cleanFiles)]
    /\ report' = NoReport
    /\ UNCHANGED <<order, rawFiles, cleanFiles, clock, caps, hist, faults, sessions,
                   call>>

(***************************************************************************)
(* Admin: Re-clean all, in the order of the keys.                          *)
(***************************************************************************)
\* RecleanFrom that zeroes the estimates of a record whose raw file is gone
RECURSIVE RecleanFromZeroes(_, _, _, _)
RecleanFromZeroes(acc, keys, raws, cps) ==
    IF keys = <<>> THEN acc
    ELSE LET sha == Head(keys)
             meta == acc.index[sha]
             fn == meta.original_name
             ex == extract_text_from_bytes(fn, raws[meta.path], cps)
             clean_txt == clean_text(ex.text, PII_SCRUB_ON_UPLOAD)
             clean_path == CleanPath(meta.uploaded_at, fn)
             counts == estimate_tokens_from_text(clean_txt)
             next == IF meta.path \notin DOMAIN raws
                     THEN [acc EXCEPT !.index[sha].est_tokens = 0,
                                      !.index[sha].est_words = 0]
                     ELSE IF ex.text = <<>> THEN acc
                     ELSE [index |->
                             [acc.index EXCEPT
                                ![sha] = [meta EXCEPT
                                            !.clean_path = clean_path,
                                            !.est_tokens = counts.tokens,
                                            !.est_words = counts.words]],
                           clean |-> Put(acc.clean, clean_path, clean_txt)]
         IN  RecleanFromZeroes(next, Tail(keys), raws, cps)

RECURSIVE RecleanFrom(_, _, _, _)
RecleanFrom(acc, keys, raws, cps) ==
    IF keys = <<>> THEN acc
    ELSE LET sha == Head(keys)
             meta == acc.index[sha]
             fn == meta.original_name
             ex == extract_text_from_bytes(fn, raws[meta.path], cps)
             clean_txt == clean_text(ex.text, PII_SCRUB_ON_UPLOAD)
             clean_path == CleanPath(meta.uploaded_at, fn)
             counts == estimate_tokens_from_text(clean_txt)
             next == IF meta.path \notin DOMAIN raws THEN acc
                     ELSE IF ex.text = <<>> THEN acc
                     ELSE [index |->
                             [acc.index EXCEPT
                                ![sha] = [meta EXCEPT
                                            !.clean_path = clean_path,
                                            !.est_tokens = counts.tokens,
                                            !.est_words = counts.words]],
                           clean |-> Put(acc.clean, clean_path, clean_txt)]
         IN  RecleanFrom(next, Tail(keys), raws, cps)

RecleanAll ==
    /\ index # EmptyMap
    /\ \E res \in {RecleanFrom([index |-> index, clean |-> cleanFiles],
                                 order, rawFiles, caps)} :
           /\ index' = res.index
           /\ cleanFiles' = res.clean
    /\ report' = NoReport
    /\ UNCHANGED <<order, rawFiles, clock, caps, hist, faults, sessions, call>>

(***************************************************************************)
(* Admin: Rebuild auto-metadata for all.                                   *)
(***************************************************************************)
\* RebuildOne that never reads the clean file and parses the raw file again
RebuildOneFromRaw(meta, raws, cleans, cps, det) ==
    LET text == IF meta.path \in DOMAIN raws
                THEN extract_text_from_bytes(meta.original_name,
                                             raws[meta.path], cps).text
                ELSE <<>>
    IN  [meta EXCEPT !.metadata =
                        auto_metadata(meta.original_name, text, cps, det)]

\* RebuildOne that copies the detected language into the manual language
RebuildOneSetsLanguage(meta, raws, cleans, cps, det) ==
    LET p == meta.clean_path
        text1 == IF p # None /\ p \in DOMAIN cleans THEN cleans[p] ELSE <<>>
        text == IF text1 # <<>> THEN text1
                ELSE IF meta.path \in DOMAIN raws
                THEN extract_text_from_bytes(meta.original_name,
                                             raws[meta.path], cps).text
                ELSE <<>>
        auto == auto_metadata(meta.original_name, text, cps, det)
    IN  [meta EXCEPT !.metadata = auto, !.language = auto.language_auto]

RebuildOne(meta, raws, cleans, cps, det) ==
    LET p == meta.clean_path
        text1 == IF p # None /\ p \in DOMAIN cleans THEN cleans[p] ELSE <<>>
        text == IF text1 # <<>> THEN text1
                ELSE IF meta.path \in DOMAIN raws
                THEN extract_text_from_bytes(meta.original_name,
                                             raws[meta.path], cps).text
                ELSE <<>>
    IN  [meta EXCEPT !.metadata =
                        auto_metadata(meta.original_name, text, cps, det)]

RebuildAll(Dets) ==
    /\ index # EmptyMap
    /\ \E det \in Dets :
         index' = [sha \in DOMAIN index |->
                     RebuildOne(index[sha], rawFiles, cleanFiles, caps, det)]
    /\ report' = NoReport
    /\ UNCHANGED <<order, rawFiles, cleanFiles, clock, caps, hist, faults, sessions,
                   call>>

(***************************************************************************)
(* Admin: Force-Change Contract.                                           *)
(***************************************************************************)
\* UpdateContract that writes the label and leaves the key
UpdateContractLabelOnly ==
    \E sha \in DOMAIN index, i \in 1..Len(CONTRACT_LABELS) :
        /\ index' = [index EXCEPT
                        ![sha].contract_label = CONTRACT_LABELS[i]]
        /\ report' = NoReport
        /\ UNCHANGED <<order, rawFiles, cleanFiles, clock, caps, hist, faults,
                       sessions, call>>

UpdateContract ==
    \E sha \in DOMAIN index, i \in 1..Len(CONTRACT_LABELS) :
        LET new_contract_label == CONTRACT_LABELS[i]
        IN  /\ index' = [index EXCEPT
                            ![sha] = [@ EXCEPT
                               !.contract_label = new_contract_label,
                               !.contract_key = CONTRACT_KEY(new_contract_label)]]
            /\ report' = NoReport
            /\ UNCHANGED <<order, rawFiles, cleanFiles, clock, caps, hist, faults, sessions,
                   call>>

(***************************************************************************)
(* Library: index_to_rows, the filters of the page and the custom          *)
(* manifest.  Strings compare as Python compares them, by code point; the  *)
(* hex digests compare in some fixed order, here that of the bytes they    *)
(* stand for.  size_pretty and tags_display are left out of the rows: the  *)
(* manifest does not read them.                                            *)
(***************************************************************************)
Ascii == <<"\t", "\n", "\r", " ", "-", ".", "0", "1", "2", "3", "4", "5", "6",
           "7", "8", "9", "D", "F", "P", "_", "a", "b", "c", "d", "e", "f",
           "h", "l", "m", "n", "o", "p", "r", "t", "x">>
Ord(c) == CHOOSE i \in 1..Len(Ascii) : Ascii[i] = c

RECURSIVE NumLess(_, _)
NumLess(a, b) ==
    IF b = <<>> THEN FALSE
    ELSE IF a = <<>> THEN TRUE
    ELSE IF Head(a) # Head(b) THEN Head(a) < Head(b)
    ELSE NumLess(Tail(a), Tail(b))

StrLess(a, b) ==
    NumLess([i \in 1..Len(a) |-> Ord(a[i])], [i \in 1..Len(b) |-> Ord(b[i])])

DigestLess(d1, d2) == NumLess(d1[2], d2[2])

\* needle in hay
Contains(hay, needle) ==
    \E i \in 0..(Len(hay) - Len(needle)) :
        SubSeq(hay, i + 1, i + Len(needle)) = needle

InSeq(x, seq) == \E i \in 1..Len(seq) : seq[i] = x

RECURSIVE index_to_rows(_, _, _)
index_to_rows(ix, keys, include_non_ok) ==
    IF keys = <<>> THEN <<>>
    ELSE LET sha == Head(keys)
             meta == ix[sha]
             row == [filename |-> meta.original_name,
                     contract_label |-> meta.contract_label,
                     contract_key |-> meta.contract_key,
                     language |-> meta.language,
                     genre |-> meta.genre,
                     tags |-> meta.tags,
                     language_auto |-> meta.metadata.language_auto,
                     year_auto |-> meta.metadata.year_auto,
                     title_auto |-> meta.metadata.title_auto,
                     size_bytes |-> meta.size_bytes,
                     est_tokens |-> meta.est_tokens,
                     uploaded_at |-> meta.uploaded_at,
                     path |-> meta.path,
                     clean_path |-> meta.clean_path,
                     cleaned |-> meta.clean_path # None,
                     sha256 |-> sha,
                     status |-> meta.status,
                     uploader_id |-> meta.uploader_id]
             rest == index_to_rows(ix, Tail(keys), include_non_ok)
         IN  IF ~include_non_ok /\ meta.status # "ok" THEN rest
             ELSE <<row>> \o rest

\* the filters of the page, in the order the page applies them
Shown(r, query) ==
    /\ query.q # <<>> => Contains(Lower(r.filename), Lower(query.q))
    /\ query.contracts # <<>> => InSeq(r.contract_label, query.contracts)
    /\ query.languages # <<>> => InSeq(r.language, query.languages)
    /\ query.genres # <<>> => InSeq(r.genre, query.genres)
    /\ query.year_enabled =>
          /\ r.year_auto # None
          /\ query.year_range[1] <= r.year_auto[1]
          /\ r.year_auto[1] <= query.year_range[2]
    /\ query.tags # <<>> =>
          IF query.match_all
          THEN \A i \in 1..Len(query.tags) : InSeq(query.tags[i], r.tags)
          ELSE \E i \in 1..Len(query.tags) : InSeq(query.tags[i], r.tags)

RECURSIVE Filtered(_, _)
Filtered(rows, query) ==
    IF rows = <<>> THEN <<>>
    ELSE IF Shown(Head(rows), query)
         THEN <<Head(rows)>> \o Filtered(Tail(rows), query)
         ELSE Filtered(Tail(rows), query)

\* the sort key with the filename alone
NameKeyLess(r1, r2) == StrLess(Lower(r1.filename), Lower(r2.filename))

\* key=lambda r: (r["filename"].lower(), r["sha256"])
SortKeyLess(r1, r2) ==
    \/ StrLess(Lower(r1.filename), Lower(r2.filename))
    \/ /\ Lower(r1.filename) = Lower(r2.filename)
       /\ DigestLess(r1.sha256, r2.sha256)

\* sorted(): stable, a row goes behind the rows that are not greater
RECURSIVE InsertSorted(_, _)
InsertSorted(r, rows) ==
    IF rows = <<>> THEN <<r>>
    ELSE IF SortKeyLess(r, Head(rows)) THEN <<r>> \o rows
         ELSE <<Head(rows)>> \o InsertSorted(r, Tail(rows))

RECURSIVE SortedRows(_)
SortedRows(rows) ==
    IF rows = <<>> THEN <<>>
    ELSE InsertSorted(rows[Len(rows)], SortedRows(SubSeq(rows, 1, Len(rows) - 1)))

RECURSIVE SumOf(_, _)
SumOf(rows, field) ==
    IF rows = <<>> THEN 0 ELSE Head(rows)[field] + SumOf(Tail(rows), field)

\* r.get("path_original", r.get("path", "")) finds "path"; r.get("path_clean",
\* "") finds no such key in a row of index_to_rows and gives ""
ManifestFile(r) ==
    [filename |-> r.filename,
     paths |-> [original |-> r.path, standard |-> <<>>],
     size_bytes |-> r.size_bytes,
     est_tokens |-> r.est_tokens,
     uploaded_at |-> r.uploaded_at,
     contract |-> r.contract_label,
     contract_label |-> r.contract_label,
     language |-> r.language,
     genre |-> r.genre,
     tags |-> r.tags,
     auto |-> [language |-> r.language_auto, year |-> r.year_auto,
               title |-> r.title_auto],
     uploader_id |-> r.uploader_id,
     sha256_raw |-> r.sha256]

Manifest(ix, keys, query, now) ==
    LET rows == index_to_rows(ix, keys, FALSE)
        filtered_sorted == SortedRows(Filtered(rows, query))
        manifest_files == [i \in 1..Len(filtered_sorted) |->
                              ManifestFile(filtered_sorted[i])]
    IN  [manifest_id |-> now,
         created_at |-> now,
         query |-> [filename_contains |-> query.q,
                    contracts |-> query.contracts,
                    languages |-> query.languages,
                    genres |-> query.genres,
                    year_enabled |-> query.year_enabled,
                    year_range |-> IF query.year_enabled THEN query.year_range
                                   ELSE None,
                    tags |-> query.tags,
                    tags_match |-> IF query.tags # <<>> /\ query.match_all
                                   THEN "all"
                                   ELSE IF query.tags # <<>> THEN "any"
                                   ELSE None],
         stats |-> [files |-> Len(manifest_files),
                    total_est_tokens |-> SumOf(filtered_sorted, "est_tokens"),
                    total_size_bytes |-> SumOf(filtered_sorted, "size_bytes")],
         files |-> manifest_files,
         version |-> "v0.6"]

\* the download of the custom manifest; the page shows it when a row is left
BuildManifest(Queries) ==
    \E query \in Queries :
        /\ Filtered(index_to_rows(index, order, FALSE), query) # <<>>
        /\ call' = [fn |-> "manifest", arg |-> query,
                    out |-> Manifest(index, order, query, clock), step |-> 1]
        /\ UNCHANGED <<index, order, rawFiles, cleanFiles, clock, caps, report,
                       hist, faults, sessions>>

(***************************************************************************)
(* Admin: Export JSONL, one line per record in the order of the keys.      *)
(***************************************************************************)
ExportRecord(sha, meta, text) ==
    [id |-> sha,
     text |-> text,
     license |-> meta.contract_key,
     manual_meta |-> [language |-> meta.language, genre |-> meta.genre,
                      tags |-> meta.tags],
     auto_meta |-> meta.metadata,
     uploader_id |-> meta.uploader_id,
     paths |-> [original |-> meta.path, standard |-> meta.clean_path]]

\* ExportLines that writes a line for every record that names a clean_path
RECURSIVE ExportLinesUnchecked(_, _, _)
ExportLinesUnchecked(ix, keys, cleans) ==
    IF keys = <<>> THEN <<>>
    ELSE LET sha == Head(keys)
             p == ix[sha].clean_path
             rest == ExportLinesUnchecked(ix, Tail(keys), cleans)
         IN  IF p = None THEN rest
             ELSE <<ExportRecord(sha, ix[sha],
                                 IF p \in DOMAIN cleans THEN cleans[p]
                                 ELSE <<>>)>> \o rest

RECURSIVE ExportLines(_, _, _)
ExportLines(ix, keys, cleans) ==
    IF keys = <<>> THEN <<>>
    ELSE LET sha == Head(keys)
             p == ix[sha].clean_path
             rest == ExportLines(ix, Tail(keys), cleans)
         IN  IF p = None \/ p \notin DOMAIN cleans THEN rest
             ELSE <<ExportRecord(sha, ix[sha], cleans[p])>> \o rest

ExportJSONL ==
    /\ call' = [fn |-> "export", arg |-> <<>>,
                out |-> ExportLines(index, order, cleanFiles), step |-> 1]
    /\ UNCHANGED <<index, order, rawFiles, cleanFiles, clock, caps, report,
                   hist, faults, sessions>>

(***************************************************************************)
(* The uploads and the environments the specifications draw from.          *)
(***************************************************************************)
NameSpaceTxt == <<"a", " ", "b">> \o DotTxt
NameUnderTxt == <<"a", "_", "b">> \o DotTxt
NameUnderMd == <<"a", "_", "b">> \o DotMd
NameYearPdf == <<"r", "2", "0", "1", "9", ".", "P", "D", "F">>
NameDocx == <<"d">> \o DotDocx
NameHtml == <<"h">> \o DotHtml
NameHtm == <<"h">> \o DotHtm

RawAB == <<97, 32, 98>>
RawB == <<98>>
RawBlank == <<32>>

\* text files: two contents, two names that sanitize to one, two names with
\* one stem
Files ==
    {[name |-> NameSpaceTxt, raw |-> RawAB],
     [name |-> NameUnderTxt, raw |-> RawB],
     [name |-> NameUnderMd, raw |-> RawAB]}

FaultFiles ==
    {[name |-> NameSpaceTxt, raw |-> RawAB],
     [name |-> NameUnderMd, raw |-> RawB]}

\* files whose extraction needs an optional parser
ParsedFiles ==
    {[name |-> NameYearPdf, raw |-> RawB],
     [name |-> NameDocx, raw |-> RawBlank],
     [name |-> NameHtml, raw |-> RawBlank],
     [name |-> NameHtm, raw |-> RawB]}

FormA == [contract_label |-> "Training Only", language |-> "English",
          genre |-> "Academic", tags |-> <<>>, user_id |-> ""]
FormB == [contract_label |-> "Full Access", language |-> "Spanish",
          genre |-> "Legal", tags |-> <<"law">>, user_id |-> "u1"]
Forms == {FormA, FormB}

Dets == {"en"}

CapsAll == [pdf |-> TRUE, docx |-> TRUE, bs4 |-> TRUE, lang |-> TRUE]
CapSets == [pdf : BOOLEAN, docx : BOOLEAN, bs4 : BOOLEAN, lang : {TRUE}]

InitStore(capSets) ==
    /\ index = EmptyMap
    /\ order = <<>>
    /\ rawFiles = EmptyMap
    /\ cleanFiles = EmptyMap
    /\ clock = 1
    /\ caps \in capSets
    /\ report = NoReport
    /\ hist = NoHist
    /\ faults = 0
    /\ sessions = [s \in Sessions |-> Idle]

InitWith(capSets) ==
    /\ InitStore(capSets)
    /\ call = NoCall

Init == InitWith({CapsAll})

\* text files, every file operation succeeds
Next ==
    \/ Upload(Files, Forms, Dets, {}, FALSE)
    \/ Tick
    \/ DeleteSelected({})
    \/ ClearAll
    \/ RecomputeAll
    \/ RecleanAll
    \/ RebuildAll(Dets)
    \/ UpdateContract

Spec == Init /\ [][Next]_vars

\* text files, uploads and deletes only
NextUpload ==
    \/ Upload(Files, Forms, Dets, {}, FALSE)
    \/ Tick
    \/ DeleteSelected({})

SpecUpload == Init /\ [][NextUpload]_vars

\* text files, uploads of sessions that interleave within one second
NextRace ==
    \/ BeginUpload(FaultFiles, {FormA}, Dets)
    \/ SaveIndex

SpecRace == Init /\ [][NextRace]_vars

\* parsed files under every combination of the optional parsers
InitCaps == InitWith(CapSets)

NextCaps ==
    \/ Upload(ParsedFiles, {FormA}, Dets, {}, FALSE)
    \/ Tick
    \/ DeleteSelected({})
    \/ RecleanAll
    \/ RebuildAll(Dets)

SpecCaps == InitCaps /\ [][NextCaps]_vars

\* text files, a removal of the delete may raise
NextDelete ==
    \/ Upload(FaultFiles, Forms, Dets, {}, FALSE)
    \/ Tick
    \/ DeleteSelected({"raw", "clean"})
    \/ RecleanAll

SpecDelete == Init /\ [][NextDelete]_vars

\* text files, a write of the upload may raise; the result of each upload
\* is kept
NextFault ==
    \/ Upload(FaultFiles, {FormA}, Dets, {"raw", "clean"}, TRUE)
    \/ Tick
    \/ DeleteSelected({})

SpecFault == Init /\ [][NextFault]_vars

(***************************************************************************)
(* The Library page: two files of one name, a name with a capital and a    *)
(* year whose text cleans to nothing; four settings of the filters.        *)
(***************************************************************************)
NameCapital == <<"P", "2", "0", "1", "9">> \o DotTxt

LibraryFiles ==
    {[name |-> NameSpaceTxt, raw |-> RawAB],
     [name |-> NameSpaceTxt, raw |-> RawB],
     [name |-> NameCapital, raw |-> RawBlank]}

QueryAll == [q |-> <<>>, contracts |-> CONTRACT_LABELS, languages |-> <<>>,
             genres |-> <<>>, year_enabled |-> FALSE, year_range |-> <<0, 0>>,
             tags |-> <<>>, match_all |-> FALSE]
QueryName == [QueryAll EXCEPT !.q = <<"P">>]
QueryForm == [QueryAll EXCEPT !.contracts = <<"Full Access">>,
                              !.languages = <<"Spanish">>,
                              !.genres = <<"Legal">>,
                              !.tags = <<"law">>,
                              !.match_all = TRUE]
QueryYear == [QueryAll EXCEPT !.year_enabled = TRUE,
                              !.year_range = <<2000, 2100>>,
                              !.tags = <<"law", "tax">>]
Queries == {QueryAll, QueryName, QueryForm, QueryYear}

NextLibrary ==
    \/ Upload(LibraryFiles, Forms, Dets, {}, FALSE)
    \/ BuildManifest(Queries)

SpecLibrary == Init /\ [][NextLibrary]_vars

(***************************************************************************)
(* Rebuild: under one name with a year, a text of two lines and a text of  *)
(* blanks only, which share their paths within a second; and a third file. *)
(***************************************************************************)
RawLines == <<97, 10, 98>>

RebuildFiles ==
    {[name |-> NameCapital, raw |-> RawLines],
     [name |-> NameCapital, raw |-> RawBlank],
     [name |-> NameSpaceTxt, raw |-> RawAB]}

NextRebuild ==
    \/ Upload(RebuildFiles, {FormB}, Dets, {}, TRUE)
    \/ Tick
    \/ RebuildAll(Dets)

SpecRebuild == Init /\ [][NextRebuild]_vars

(***************************************************************************)
(* Files that go missing: two files with one raw path and one clean path,  *)
(* so that the delete of one record takes the files of the other, and a    *)
(* file of blanks.                                                         *)
(***************************************************************************)
SkipFiles ==
    {[name |-> NameSpaceTxt, raw |-> RawAB],
     [name |-> NameUnderTxt, raw |-> RawB],
     [name |-> NameCapital, raw |-> RawBlank]}

NextSkip ==
    \/ Upload(SkipFiles, {FormA}, Dets, {}, FALSE)
    \/ Tick
    \/ DeleteSelected({})
    \/ RecomputeAll
    \/ RecleanAll

SpecSkip == Init /\ [][NextSkip]_vars

\* uploads under both forms, deletes and changes of contract
NextContract ==
    \/ Upload(Files, Forms, Dets, {}, FALSE)
    \/ DeleteSelected({})
    \/ UpdateContract

SpecContract == Init /\ [][NextContract]_vars

(***************************************************************************)
(* auto_metadata on its own: filenames of digits, and texts without a      *)
(* year, with a year at their start, and with two years behind a letter.   *)
(***************************************************************************)
YearChars == {"0", "1", "2", "9"}
YearNames == UNION {[1..n -> YearChars] : n \in 1..MaxName}

YearTexts ==
    {<<>>,
     <<"a", " ", "1", "9">>,
     <<"2", "0", "4", "4">>,
     <<"a", "1", "9", "0", "0", "2", "0", "9", "9">>}

InitYear ==
    /\ InitStore({CapsAll})
    /\ \E filename \in YearNames, text \in YearTexts :
          call = [fn |-> "auto_metadata",
                  arg |-> [filename |-> filename, text |-> text],
                  out |-> <<>>,
                  step |-> 0]

ApplyYear ==
    /\ call.fn = "auto_metadata"
    /\ call.step = 0
    /\ \E det \in Dets :
          call' = [call EXCEPT
                     !.out = auto_metadata(call.arg.filename, call.arg.text,
                                           caps, det),
                     !.step = 1]
    /\ UNCHANGED <<index, order, rawFiles, cleanFiles, clock, caps, report,
                   hist, faults, sessions>>

SpecYear == InitYear /\ [][ApplyYear]_vars

(***************************************************************************)
(* auto_metadata read for its title: every short text of letters, blanks   *)
(* and newlines, under two filenames.                                      *)
(***************************************************************************)
LineChars == {"a", " ", "\n"}

TitleTexts == UNION {[1..n -> LineChars] : n \in 0..MaxLines}

InitTitle ==
    /\ InitStore({CapsAll})
    /\ \E filename \in {NameCapital, NameUnderMd}, text \in TitleTexts :
          call = [fn |-> "auto_metadata",
                  arg |-> [filename |-> filename, text |-> text],
                  out |-> <<>>,
                  step |-> 0]

SpecTitle == InitTitle /\ [][ApplyYear]_vars

(***************************************************************************)
(* The export: two files whose clean paths coincide, a third with a path   *)
(* of its own and one whose text cleans to nothing.                        *)
(***************************************************************************)
ExportFiles ==
    {[name |-> NameSpaceTxt, raw |-> RawAB],
     [name |-> NameUnderTxt, raw |-> RawB],
     [name |-> NameCapital, raw |-> RawB],
     [name |-> NameCapital, raw |-> RawBlank]}

NextExport ==
    \/ Upload(ExportFiles, {FormA}, Dets, {}, FALSE)
    \/ DeleteSelected({})
    \/ ExportJSONL

SpecExport == Init /\ [][NextExport]_vars

(***************************************************************************)
(* The estimates of the upload handler, examined on one file: k words of   *)
(* w letters, as a text file or as a PDF whose parser may be absent.       *)
(***************************************************************************)
RECURSIVE WordBytes(_, _)
WordBytes(k, w) ==
    IF k = 0 THEN <<>>
    ELSE LET word == [i \in 1..w |-> 97]
         IN  IF k = 1 THEN word ELSE word \o <<32>> \o WordBytes(k - 1, w)

NameTxt == <<"t">> \o DotTxt
NamePdf == <<"p", ".", "p", "d", "f">>

InitEstimate ==
    /\ InitStore({CapsAll, [CapsAll EXCEPT !.pdf = FALSE]})
    /\ \E k \in 0..MaxCount, w \in 1..2, name \in {NameTxt, NamePdf} :
          call = [fn |-> "estimate",
                  arg |-> [words |-> k,
                           file |-> [name |-> name, raw |-> WordBytes(k, w)]],
                  out |-> <<>>,
                  step |-> 0]

NextEstimate ==
    \/ Upload({call.arg.file}, {FormA}, Dets, {}, FALSE)
    \/ Tick
    \/ DeleteSelected({})

SpecEstimate == InitEstimate /\ [][NextEstimate]_vars

(***************************************************************************)
(* clean_text examined by itself: applied to a text, then to its result.   *)
(***************************************************************************)
TextChars == {"a", " ", "\t", "\n", "-"}
Texts == UNION {[1..n -> TextChars] : n \in 0..MaxText}

InitClean ==
    /\ InitStore({CapsAll})
    /\ \E text \in Texts, pii \in BOOLEAN :
          call = [fn |-> "clean_text",
                  arg |-> [text |-> text, pii |-> pii],
                  out |-> <<>>,
                  step |-> 0]

ApplyClean ==
    /\ call.fn = "clean_text"
    /\ call.step < 2
    /\ call' = [call EXCEPT
                  !.out = Append(@, clean_text(IF call.step = 0
                                               THEN call.arg.text
                                               ELSE call.out[call.step],
                                               call.arg.pii)),
                  !.step = @ + 1]
    /\ UNCHANGED <<index, order, rawFiles, cleanFiles, clock, caps, report,
                   hist, faults, sessions>>

SpecClean == InitClean /\ [][ApplyClean]_vars

(***************************************************************************)
(* Properties.  An upload of the files `files` under the form `form` in    *)
(* the current state gives Outcome(files, form); where a property speaks   *)
(* of every upload, it ranges over the batches and forms of the            *)
(* specification it is checked under.                                      *)
(***************************************************************************)
Outcome(files, form) ==
    UploadResult(files, form,
                 [ts |-> clock, caps |-> caps, det |-> "en", fault |-> NoFault])

Digest(files, k) == sha256_bytes(files[k].raw)

\* file k meets its digest in the index: persisted before the batch, or
\* entered by an earlier file of the batch
MeetsDigest(files, k) ==
    \/ Digest(files, k) \in DOMAIN index
    \/ \E j \in 1..(k - 1) : Digest(files, j) = Digest(files, k)

\* the files of the batch that meet their digest, and the rank of k among them
Repeats(files) == {k \in 1..Len(files) : MeetsDigest(files, k)}
RepeatRank(files, k) == Cardinality({j \in Repeats(files) : j <= k})

\* the paths whose file differs between two views of a directory
Written(before, after) ==
    {p \in DOMAIN after : p \notin DOMAIN before \/ after[p] # before[p]}

(***************************************************************************)
(* C1: after any sequence of uploads with no delete in between, the index  *)
(* holds exactly one record per distinct digest uploaded: its keys are the *)
(* digests uploaded, as many entries were created as there are digests,    *)
(* and each key was entered once.                                          *)
(***************************************************************************)
C1_OneRecordPerDigest ==
    ~hist.deleted =>
        /\ DOMAIN index = hist.uploaded
        /\ hist.created = Cardinality(hist.uploaded)
        /\ Len(order) = Cardinality(hist.uploaded)
        /\ \A d \in hist.uploaded : \E i \in 1..Len(order) : order[i] = d

\* two digests were uploaded and one of them again
C1_Witness ==
    /\ ~hist.deleted
    /\ hist.sawDuplicate
    /\ Cardinality(hist.uploaded) = 2
    /\ Cardinality(DOMAIN index) = 2

(***************************************************************************)
(* C2: an upload of bytes whose digest is in the index leaves the record   *)
(* of that digest as it is, whatever filename and form the upload carries; *)
(* within a batch the first filename stays; the files an upload writes are *)
(* those of the records it creates, and an upload of duplicates only       *)
(* writes nothing.                                                         *)
(***************************************************************************)
C2_DuplicateLeavesRecord ==
    \A files \in Batches(Files), form \in Forms :
      \A res \in {Outcome(files, form)} :
        /\ \A d \in DOMAIN index :
              d \in DOMAIN res.index /\ res.index[d] = index[d]
        /\ \A k \in 1..Len(files) :
              ~MeetsDigest(files, k) =>
                  res.index[Digest(files, k)].original_name = files[k].name
        /\ \A p \in Written(rawFiles, res.raw) :
              \E d \in DOMAIN res.index \ DOMAIN index : res.index[d].path = p
        /\ \A p \in Written(cleanFiles, res.clean) :
              \E d \in DOMAIN res.index \ DOMAIN index :
                 p = CleanPath(res.index[d].uploaded_at,
                               res.index[d].original_name)
        /\ (\A k \in 1..Len(files) : Digest(files, k) \in DOMAIN index) =>
              /\ res.index = index
              /\ res.order = order
              /\ res.raw = rawFiles
              /\ res.clean = cleanFiles

\* a digest of the index came again under another filename, and the record
\* keeps the form of its first upload while the page may carry another
C2_Witness ==
    /\ hist.sawRenamed
    /\ \E d \in DOMAIN index :
          /\ index[d].original_name = NameSpaceTxt
          /\ index[d].language = FormB.language
          /\ index[d].uploaded_at < clock

C4_RawPathOwned ==
    \A d1, d2 \in DOMAIN index :
        d1 # d2 => index[d1].path # index[d2].path

(***************************************************************************)
(* C5 (as amended): the delete of a record tries to remove the raw file    *)
(* and then the cleaned file before it removes the index entry, and        *)
(* removes the entry in every case.  Where no removal fails, both files    *)
(* are gone when the entry goes.  Where a removal fails, the failure is    *)
(* swallowed: the cleaned file is left as it was, and either the raw file  *)
(* is left too (its removal failed) or the raw file is gone and the        *)
(* cleaned file stays (the removal of the cleaned file failed).            *)
(***************************************************************************)
C5_DeleteRemovesFiles ==
    [][\A d \in DOMAIN index \ DOMAIN index' :
          LET meta == index[d]
          IN  /\ faults' = faults =>
                    /\ meta.path \notin DOMAIN rawFiles'
                    /\ meta.clean_path # None =>
                          meta.clean_path \notin DOMAIN cleanFiles'
              /\ faults' # faults =>
                    /\ cleanFiles' = cleanFiles
                    /\ \/ rawFiles' = rawFiles /\ meta.path \in DOMAIN rawFiles
                       \/ /\ meta.path \notin DOMAIN rawFiles'
                          /\ meta.clean_path # None
                          /\ meta.clean_path \in DOMAIN cleanFiles']_vars

\* C5 as first stated: the entry goes only when both files are gone, also
\* when a removal fails
C5_FilesGoneFirst ==
    [][\A d \in DOMAIN index \ DOMAIN index' :
          LET meta == index[d]
          IN  /\ meta.path \notin DOMAIN rawFiles'
              /\ meta.clean_path # None =>
                    meta.clean_path \notin DOMAIN cleanFiles']_vars

\* a removal has failed, the entry is gone and a file is left behind
C5_Witness ==
    /\ hist.removalFailed
    /\ index = EmptyMap
    /\ rawFiles # EmptyMap \/ cleanFiles # EmptyMap

(***************************************************************************)
(* C6: no step changes size_bytes, uploaded_at or uploader_id of a record  *)
(* that it keeps.                                                          *)
(***************************************************************************)
C6_ProvenanceKept ==
    [][\A d \in DOMAIN index \cap DOMAIN index' :
          /\ index'[d].size_bytes = index[d].size_bytes
          /\ index'[d].uploaded_at = index[d].uploaded_at
          /\ index'[d].uploader_id = index[d].uploader_id]_vars

\* a record of an earlier time whose contract was changed by the admin and
\* whose estimates were recomputed from a file that another upload overwrote
C6_Witness ==
    \E d \in DOMAIN index :
        /\ index[d].contract_label = "Training + AI-Reading"
        /\ index[d].uploaded_at < clock
        /\ index[d].uploader_id = "unknown"
        /\ index[d].est_words # index[d].metadata.words_auto

(***************************************************************************)
(* C7: no step changes language, genre or tags of a record that it keeps;  *)
(* a step that changes a record writes either est_tokens, est_words,       *)
(* clean_path and metadata only (recompute, re-clean, rebuild) or the      *)
(* contract only (force-change contract).                                  *)
(***************************************************************************)
C7_ManualMetadataKept ==
    [][\A d \in DOMAIN index \cap DOMAIN index' :
          /\ index'[d].language = index[d].language
          /\ index'[d].genre = index[d].genre
          /\ index'[d].tags = index[d].tags
          /\ \/ index'[d] = [index[d] EXCEPT
                                !.est_tokens = index'[d].est_tokens,
                                !.est_words = index'[d].est_words,
                                !.clean_path = index'[d].clean_path,
                                !.metadata = index'[d].metadata]
             \/ index'[d] = [index[d] EXCEPT
                                !.contract_label = index'[d].contract_label,
                                !.contract_key = index'[d].contract_key]]_vars

\* a record with the manual metadata of the second form whose inferred
\* metadata was rebuilt, or whose estimates were recomputed, from a file that
\* another upload overwrote
C7_Witness ==
    \E d \in DOMAIN index :
        /\ index[d].language = FormB.language
        /\ index[d].genre = FormB.genre
        /\ index[d].tags = FormB.tags
        /\ index[d].metadata.language_auto = "en"
        /\ index[d].est_words # index[d].metadata.words_auto

(***************************************************************************)
(* C8 (as amended): a record ingested from a file without extractable      *)
(* text has no clean_path; its inferred language is "unknown", its words   *)
(* and tokens are zero, its title is the stem of the filename, and its     *)
(* year is the first year of the filename, none where the filename has     *)
(* none; the upload of such a file writes no cleaned file.                 *)
(***************************************************************************)
NoText(d) ==
    /\ index[d].path \in DOMAIN rawFiles
    /\ extract_text_from_bytes(index[d].original_name,
                               rawFiles[index[d].path], caps).text = <<>>

C8_NoTextRecord ==
    /\ \A d \in DOMAIN index :
          NoText(d) =>
              /\ index[d].clean_path = None
              /\ index[d].metadata =
                    [language_auto |-> "unknown",
                     year_auto |-> YearSearch(index[d].original_name, 1),
                     title_auto |-> Prefix(splitext(index[d].original_name)[1],
                                           TitleMax),
                     words_auto |-> 0,
                     tokens_auto |-> 0]
    /\ \A f \in ParsedFiles :
          extract_text_from_bytes(f.name, f.raw, caps).text = <<>> =>
              Outcome(<<f>>, FormA).clean = cleanFiles

\* C8 as first stated: every field of the inferred metadata is unknown
C8_AllUnknown ==
    /\ \A d \in DOMAIN index :
          NoText(d) =>
              /\ index[d].clean_path = None
              /\ index[d].metadata.language_auto = "unknown"
              /\ index[d].metadata.year_auto = None
              /\ index[d].metadata.words_auto = 0
              /\ index[d].metadata.tokens_auto = 0
    /\ \A f \in ParsedFiles :
          extract_text_from_bytes(f.name, f.raw, caps).text = <<>> =>
              Outcome(<<f>>, FormA).clean = cleanFiles

\* a record without text whose filename carries a year, and one whose
\* filename carries none
C8_Witness ==
    /\ \E d \in DOMAIN index : NoText(d) /\ index[d].metadata.year_auto # None
    /\ \E d \in DOMAIN index : NoText(d) /\ index[d].metadata.year_auto = None

(***************************************************************************)
(* C9: for a .pdf, .docx, .html or .htm file whose parser is absent,       *)
(* extraction gives the empty text and a warning, and an upload that       *)
(* holds the file runs through: the index then has a record with status    *)
(* "ok" for its digest, made from this file, with the warning in its row,  *)
(* unless the digest was met before.                                       *)
(***************************************************************************)
ParserAbsent(filename) ==
    LET ext == splitext(Lower(filename))[2]
    IN  \/ ext = DotPdf /\ ~caps.pdf
        \/ ext = DotDocx /\ ~caps.docx
        \/ ext \in {DotHtml, DotHtm} /\ ~caps.bs4

C9_AbsentParserIngests ==
    \A files \in Batches(ParsedFiles) :
      \A res \in {Outcome(files, FormA)} :
        \A k \in 1..Len(files) :
          ParserAbsent(files[k].name) =>
            LET ex == extract_text_from_bytes(files[k].name, files[k].raw, caps)
                d == Digest(files, k)
            IN  /\ ex.text = <<>>
                /\ ex.warnings # <<>>
                /\ res.ok
                /\ d \in DOMAIN res.index
                /\ res.index[d].status = "ok"
                /\ ~MeetsDigest(files, k) =>
                      /\ res.index[d].original_name = files[k].name
                      /\ \E i \in 1..Len(res.accepted_rows) :
                            /\ res.accepted_rows[i].filename = files[k].name
                            /\ res.accepted_rows[i].extraction_warnings
                                  = ex.warnings

\* records made from a .pdf and from a .htm file while their parsers are absent
C9_Witness ==
    /\ \E d \in DOMAIN index :
          /\ index[d].original_name = NameYearPdf
          /\ ParserAbsent(NameYearPdf)
          /\ index[d].status = "ok"
    /\ \E d \in DOMAIN index :
          /\ index[d].original_name = NameHtml
          /\ ParserAbsent(NameHtml)

(***************************************************************************)
(* C10: a failure at one file of a batch leaves the others ingested: after *)
(* the batch the index has a record for every file of the batch with       *)
(* other content than the file that failed.                                *)
(***************************************************************************)
C10_FailureIsolated ==
    report.raised # 0 =>
        \A k \in 1..Len(report.files) :
            Digest(report.files, k) # Digest(report.files, report.raised) =>
                Digest(report.files, k) \in DOMAIN index

(***************************************************************************)
(* C11: the index is loaded whole and saved whole, without a lock.  When   *)
(* a run saves, the persisted index is exactly the dict of that run: its   *)
(* keys are the keys the run loaded and the digests of its own files, and  *)
(* every record that another run saved after this run had loaded, and      *)
(* that this run did not ingest itself, is absent from it.                 *)
(***************************************************************************)
C11_LastSaveWins ==
    [][\A s \in Sessions :
          sessions[s].pc = "loaded" /\ sessions'[s].pc = "idle" =>
              /\ index' = sessions[s].index
              /\ DOMAIN index' = sessions[s].loaded \cup sessions[s].own
              /\ \A d \in DOMAIN index :
                    d \notin sessions[s].loaded \cup sessions[s].own =>
                        d \notin DOMAIN index']_vars

\* both runs have saved, and the raw file of a record that only the earlier
\* saver added is on disk while the index has no record of its digest
C11_Witness ==
    /\ \A s \in Sessions : sessions[s].pc = "idle"
    /\ index # EmptyMap
    /\ \E p \in DOMAIN rawFiles : sha256_bytes(rawFiles[p]) \notin DOMAIN index

(***************************************************************************)
(* C12: the estimates of a record made by ingest.  With text extracted,    *)
(* est_words is the number of words of the text and est_tokens the         *)
(* integer nearest to est_words / 0.75; without, est_tokens is the         *)
(* integer nearest to size_bytes / 4 and est_words the integer nearest to  *)
(* est_tokens * 0.75.  round() takes the even neighbour of a half.         *)
(***************************************************************************)
\* r is num / den rounded: the nearest integer, the even one of two
Rounded(r, num, den) ==
    LET twice == 2 * (r * den - num)
    IN  /\ -den <= twice
        /\ twice <= den
        /\ (twice = den \/ twice = -den) => r % 2 = 0

C12_EstimatesConsistent ==
    \A d \in DOMAIN index :
        LET meta == index[d]
            textual == \/ call.arg.file.name = NameTxt
                       \/ caps.pdf
        IN  /\ meta.size_bytes = Len(call.arg.file.raw)
            /\ textual /\ call.arg.words > 0 =>
                  /\ meta.est_words = call.arg.words
                  /\ Rounded(meta.est_tokens, 4 * meta.est_words, 3)
            /\ ~(textual /\ call.arg.words > 0) =>
                  /\ Rounded(meta.est_tokens, meta.size_bytes, 4)
                  /\ Rounded(meta.est_words, 3 * meta.est_tokens, 4)

\* the record of a file without text of eight bytes: two tokens, and the
\* words fall on the half 1.5
C12_Witness ==
    \E d \in DOMAIN index :
        /\ ~caps.pdf
        /\ call.arg.file.name = NamePdf
        /\ index[d].size_bytes = 8
        /\ index[d].est_tokens = 2
        /\ index[d].est_words = 2

(***************************************************************************)
(* C13: cleaning is idempotent: clean_text of a cleaned text is that text, *)
(* with and without the scrubbing of personal data.                        *)
(***************************************************************************)
C13_CleanIdempotent ==
    call.fn = "clean_text" /\ call.step = 2 => call.out[2] = call.out[1]

(***************************************************************************)
(* C14: the custom manifest lists its files in the order of their          *)
(* filenames (compared without regard to case), files of one name in the   *)
(* order of their digests; built again from the same records and the same  *)
(* query, in whatever order the index holds the records and at whatever    *)
(* time, it has the same files and stats; stats.files is the number of     *)
(* files listed and the two totals are the sums over the files listed.     *)
(***************************************************************************)
Orders(ix) ==
    {keys \in [1..Cardinality(DOMAIN ix) -> DOMAIN ix] :
        \A i, j \in DOMAIN keys : i # j => keys[i] # keys[j]}

Built == call'.fn = "manifest" /\ call' # call

C14_ManifestDeterministic ==
    [][Built =>
        LET m == call'.out
            files == m.files
        IN  /\ \A i, j \in 1..Len(files) :
                  i < j =>
                     \/ StrLess(Lower(files[i].filename),
                                Lower(files[j].filename))
                     \/ /\ Lower(files[i].filename) = Lower(files[j].filename)
                        /\ DigestLess(files[i].sha256_raw,
                                      files[j].sha256_raw)
            /\ \A keys \in Orders(index), now \in 0..MaxTime :
                  \E again \in {Manifest(index, keys, call'.arg, now)} :
                      again.files = files /\ again.stats = m.stats
            /\ m.stats.files = Len(files)
            /\ m.stats.total_est_tokens = SumOf(files, "est_tokens")
            /\ m.stats.total_size_bytes = SumOf(files, "size_bytes")]_vars

\* two files of one name listed, the index holding them the other way round
C14_Witness ==
    /\ call.fn = "manifest"
    /\ Len(call.out.files) = 2
    /\ call.out.files[1].filename = call.out.files[2].filename
    /\ order = <<call.out.files[2].sha256_raw, call.out.files[1].sha256_raw>>
    /\ call.out.stats.total_size_bytes = 4

(***************************************************************************)
(* C15: each entry of the custom manifest projects the record it comes     *)
(* from: sha256_raw is the digest of a record of the index, paths.original *)
(* is that record's raw path, and paths.standard is the record's           *)
(* clean_path whenever the record has one.                                 *)
(***************************************************************************)
C15_EntryProjectsRecord ==
    [][Built =>
        \A i \in 1..Len(call'.out.files) :
            LET entry == call'.out.files[i]
                sha == entry.sha256_raw
            IN  /\ sha \in DOMAIN index
                /\ entry.paths.original = index[sha].path
                /\ index[sha].clean_path # None =>
                      entry.paths.standard = index[sha].clean_path]_vars

(***************************************************************************)
(* C16: the JSONL export has exactly one line for each record of the index *)
(* that has a clean_path whose file exists, the line's id being the        *)
(* record's digest, and no line for a record that has no clean_path.       *)
(***************************************************************************)
Exported == call'.fn = "export" /\ call' # call

C16_ExportExactlyCleaned ==
    [][Exported =>
        LET lines == call'.out
            ids == {lines[i].id : i \in 1..Len(lines)}
        IN  /\ \A i, j \in 1..Len(lines) : i # j => lines[i].id # lines[j].id
            /\ ids = {sha \in DOMAIN index :
                         /\ index[sha].clean_path # None
                         /\ index[sha].clean_path \in DOMAIN cleanFiles}
            /\ \A i \in 1..Len(lines) :
                  /\ lines[i].paths.standard = index[lines[i].id].clean_path
                  /\ lines[i].text = cleanFiles[index[lines[i].id].clean_path]
            /\ \A sha \in DOMAIN index :
                  index[sha].clean_path = None => sha \notin ids]_vars

\* one line exported, for one of two records: the other names a clean file
\* that is gone
C16_Witness ==
    /\ call.fn = "export"
    /\ Len(call.out) = 1
    /\ Cardinality(DOMAIN index) = 2
    /\ call.out[1].id \in DOMAIN index
    /\ \E sha \in DOMAIN index :
          /\ index[sha].clean_path # None
          /\ index[sha].clean_path \notin DOMAIN cleanFiles

(***************************************************************************)
(* C17: for a record whose raw file and clean file hold what its ingest    *)
(* wrote, rebuilding the auto-metadata gives the metadata the record has   *)
(* had since its ingest, a second rebuild changes nothing, and the result  *)
(* is the same whatever the other fields of the record are.                *)
(***************************************************************************)
AsIngested(d) ==
    LET meta == index[d]
        text == extract_text_from_bytes(meta.original_name, d[2], caps).text
    IN  /\ meta.path \in DOMAIN rawFiles
        /\ rawFiles[meta.path] = d[2]
        /\ meta.clean_path # None =>
              /\ meta.clean_path \in DOMAIN cleanFiles
              /\ cleanFiles[meta.clean_path] =
                     clean_text(text, PII_SCRUB_ON_UPLOAD)

Scrambled(meta) ==
    [meta EXCEPT !.contract_label = "Full Access",
                 !.contract_key = "full_access",
                 !.uploaded_at = MaxTime + 1,
                 !.size_bytes = 0,
                 !.est_tokens = 0,
                 !.est_words = 0,
                 !.language = "",
                 !.genre = "",
                 !.tags = <<"x">>,
                 !.uploader_id = "",
                 !.metadata = [language_auto |-> "unknown",
                               year_auto |-> None,
                               title_auto |-> <<>>,
                               words_auto |-> 0,
                               tokens_auto |-> 0]]

ReadPath(meta) == IF meta.clean_path # None THEN meta.clean_path ELSE meta.path

C18_MissingFileSkipped ==
    \E rc \in {[sha \in DOMAIN index |->
                    RecomputeOne(index[sha], rawFiles, cleanFiles)]},
       rl \in {RecleanFrom([index |-> index, clean |-> cleanFiles], order,
                           rawFiles, caps)} :
        /\ DOMAIN rl.index = DOMAIN index
        /\ \A d \in DOMAIN index :
              LET meta == index[d]
                  p == ReadPath(meta)
              IN  /\ ~Exists(rawFiles, cleanFiles, p) => rc[d] = meta
                  /\ Exists(rawFiles, cleanFiles, p) =>
                        /\ rc[d] = [meta EXCEPT
                                       !.est_tokens = rc[d].est_tokens,
                                       !.est_words = rc[d].est_words]
                        /\ EndsWith(p[3], DotTxt) =>
                              rc[d].est_words =
                                 CountWords(ReadText(rawFiles, cleanFiles, p),
                                            FALSE)
                  /\ meta.path \notin DOMAIN rawFiles => rl.index[d] = meta
                  /\ /\ meta.path \in DOMAIN rawFiles
                     /\ safe_decode(rawFiles[meta.path]) # <<>>
                     => /\ rl.index[d].clean_path # None
                        /\ rl.index[d].clean_path \in DOMAIN rl.clean

\* a record whose raw file went with the delete of another record, beside a
\* record of blanks to which a re-clean has given a clean_path
C18_Witness ==
    /\ \E d \in DOMAIN index :
          /\ index[d].path \notin DOMAIN rawFiles
          /\ ~Exists(rawFiles, cleanFiles, ReadPath(index[d]))
    /\ \E d \in DOMAIN index :
          /\ index[d].path \in DOMAIN rawFiles
          /\ rawFiles[index[d].path] = RawBlank
          /\ index[d].clean_path # None

(***************************************************************************)
(* C19: after every step of ingest, delete and force-change of contract,   *)
(* each record's contract_label is one of the three labels and its         *)
(* contract_key is the key of that label; a step that changes a record     *)
(* that it keeps changes the label and the key of that one record and      *)
(* nothing else: no other field, no other record, no file.                 *)
(***************************************************************************)
KeyOfLabel(meta) ==
    \/ meta.contract_label = "Training Only"
          /\ meta.contract_key = "training_only"
    \/ meta.contract_label = "Training + AI-Reading"
          /\ meta.contract_key = "training_plus_ai"
    \/ meta.contract_label = "Full Access"
          /\ meta.contract_key = "full_access"

C19_ContractConsistent ==
    [][/\ \A d \in DOMAIN index' : KeyOfLabel(index'[d])
       /\ \A d \in DOMAIN index \cap DOMAIN index' :
             index'[d] # index[d] =>
                /\ index'[d] = [index[d] EXCEPT
                                   !.contract_label = index'[d].contract_label,
                                   !.contract_key = index'[d].contract_key]
                /\ DOMAIN index' = DOMAIN index
                /\ \A e \in DOMAIN index \ {d} : index'[e] = index[e]
                /\ order' = order
                /\ rawFiles' = rawFiles
                /\ cleanFiles' = cleanFiles]_vars

\* a record under a contract that no form of the uploads carries, beside a
\* record that is as the second form made it
C19_Witness ==
    \E d, e \in DOMAIN index :
        /\ index[d].contract_label = "Training + AI-Reading"
        /\ index[d].contract_key = "training_plus_ai"
        /\ index[d].language = FormA.language
        /\ index[e].contract_label = FormB.contract_label
        /\ index[e].language = FormB.language

(***************************************************************************)
(* C20: the year is the leftmost four characters 19dd or 20dd of the       *)
(* filename; when the filename has none, the leftmost such four characters *)
(* within the first 5000 characters of the text; when neither has any, the *)
(* year is None.  It is never zero and lies in 1900..2099.  The four       *)
(* characters count wherever they stand, also within a longer run of       *)
(* digits, as the pattern has it.                                          *)
(***************************************************************************)
YearAt(s, i) ==
    /\ <<s[i], s[i + 1]>> \in {<<"1", "9">>, <<"2", "0">>}
    /\ s[i + 2] \in Digits
    /\ s[i + 3] \in Digits

YearHits(s) == {i \in 1..(Len(s) - 3) : YearAt(s, i)}

FirstYear(s) ==
    LET i == CHOOSE h \in YearHits(s) : \A g \in YearHits(s) : h <= g
    IN  1000 * DigitVal(s[i]) + 100 * DigitVal(s[i + 1])
          + 10 * DigitVal(s[i + 2]) + DigitVal(s[i + 3])

C21_TitleWithinWindow ==
    call.fn = "auto_metadata" /\ call.step = 1 =>
        LET line == FirstLine(call.arg.text)
            stem == splitext(call.arg.filename)[1]
        IN  call.out.title_auto =
                IF 2 <= Len(line) /\ Len(line) <= 120 THEN line ELSE stem

(***************************************************************************)
(* C22: the delete of a record leaves the files of every other record: a   *)
(* record that is kept and had its raw file, and its clean file when it    *)
(* has a clean_path, with the content of its own ingest before the delete, *)
(* has them with that content after it.                                    *)
(***************************************************************************)
C22_DeleteKeepsOthers ==
    [][DOMAIN index' # DOMAIN index /\ DOMAIN index' \subseteq DOMAIN index =>
          \A e \in DOMAIN index' : AsIngested(e) => AsIngested(e)']_vars

(***************************************************************************)
(* C23: the standard directory and the index correspond: every clean file  *)
(* is the clean_path of exactly one record, a record that has a clean_path *)
(* has the file, and a record has a clean_path exactly when the clean file *)
(* of its upload time and name is there.                                   *)
(***************************************************************************)
C23_CleanFilesReferenced ==
    /\ \A p \in DOMAIN cleanFiles :
          Cardinality({d \in DOMAIN index : index[d].clean_path = p}) = 1
    /\ \A d \in DOMAIN index :
          LET meta == index[d]
              own == CleanPath(meta.uploaded_at, meta.original_name)
          IN  /\ meta.clean_path # None => meta.clean_path \in DOMAIN cleanFiles
              /\ meta.clean_path # None <=> own \in DOMAIN cleanFiles

=============================================================================
